---- MODULE Spec2Model ----
(***************************************************************************)
(* Claude Desktop Config Manager: the configuration file, the backup and   *)
(* preset directories, and the menu handlers of the two variants of the    *)
(* tool ("compact": claude-config-manager.js, "beta": the verbose script). *)
(*                                                                         *)
(* A file is modelled by its bytes up to the order of object keys: the     *)
(* JSON value it holds and the way it is laid out ("hand" for text the     *)
(* user or another program wrote, "pretty" for the output of               *)
(* JSON.stringify(value, null, 2)).  Copies made with                      *)
(* writeFileSync(dst, readFileSync(src)) keep both; a parse followed by a  *)
(* stringify keeps the value and changes the layout to "pretty".           *)
(***************************************************************************)
EXTENDS Integers, Sequences, FiniteSets, TLC

VARIABLES live, latest, preRestore, backups, presets, clock, proc, last, prev, steps, budget

vars == <<live, latest, preRestore, backups, presets, clock, proc, last, prev, steps, budget>>

(***************************************************************************)
(* Bounds of the model.                                                    *)
(***************************************************************************)
MaxNames == 2

MaxSteps == 2

MaxRuns == 2

MaxClock == 2

\* The members of the objects in the texts handed to the JSON repair.
MaxMembers == 2

(***************************************************************************)
(* Server names and definition values.                                     *)
(***************************************************************************)
NameUniverse == <<"filesystem", "alpha", "mcp-installer", "beta", "gamma">>

Names == {NameUniverse[i] : i \in 1..MaxNames}

\* Definition values are JSON values; JavaScript treats null, false, 0 and ""
\* as falsy and every object as truthy.
ObjectDefs == {"{\"command\":\"node\"}", "{\"command\":\"npx\"}"}

FalsyDefs == {"null", "false", "0", "\"\""}

Defs == ObjectDefs \cup FalsyDefs

IsTruthyDef(d) == d \notin FalsyDefs

(***************************************************************************)
(* Buckets and configurations.  A bucket key is absent ("absent") or holds *)
(* a JSON object ("object") whose entries are the map.  A file written by  *)
(* hand can also hold null ("null"), a non-empty string ("string") or an   *)
(* array ("array") under a bucket key; these occur in the configurations   *)
(* handed to the structure fix.                                            *)
(***************************************************************************)
EmptyMap == [n \in {} |-> "null"]

AbsentBucket == [kind |-> "absent", map |-> EmptyMap]

ObjBucket(m) == [kind |-> "object", map |-> m]

EmptyObj == ObjBucket(EmptyMap)

NullBucket == [kind |-> "null", map |-> EmptyMap]

StringBucket == [kind |-> "string", map |-> EmptyMap]

ArrayBucket == [kind |-> "array", map |-> EmptyMap]

\* The kinds that pass if (x): undefined and null do not.
TruthyKinds == {"object", "array", "string"}

\* The kinds with typeof x === 'object': null and arrays are among them.
ObjectTypeKinds == {"object", "array", "null"}

\* if (x) ...  /  !x
IsTruthy(b) == b.kind \in TruthyKinds

\* typeof x === 'object'
TypeofObject(b) == b.kind \in ObjectTypeKinds

\* x || {}
OrEmpty(b) == IF IsTruthy(b) THEN b ELSE EmptyObj

\* Object.keys(x)
Keys(b) == DOMAIN b.map

\* x[name] = v and delete x[name] throw a TypeError when x is undefined
CanHoldProps(b) == b.kind \notin {"absent", "null"}

\* x[name] as a condition: the property exists and its value is truthy
HasTruthy(m, n) == n \in DOMAIN m /\ IsTruthyDef(m[n])

\* { ...a, ...b } and Object.assign(a, b): the entries of b win
Merge(a, b) == [n \in (DOMAIN a) \cup (DOMAIN b) |-> IF n \in DOMAIN b THEN b[n] ELSE a[n]]

Without(m, n) == [k \in (DOMAIN m) \ {n} |-> m[k]]

With(m, n, d) == [k \in (DOMAIN m) \cup {n} |-> IF k = n THEN d ELSE m[k]]

Restrict(m, S) == [k \in (DOMAIN m) \cap S |-> m[k]]

\* The other top-level keys of the file, as one opaque value ("none": there
\* are none).
Others == {"none", "{\"globalShortcut\":\"Ctrl+Space\"}", "{\"theme\":\"dark\"}"}

MkConfig(e, d, o) == [mcpServers |-> e, disabledMcpServers |-> d, other |-> o]

EmptyConfig == MkConfig(AbsentBucket, AbsentBucket, "none")

(***************************************************************************)
(* Files.                                                                  *)
(***************************************************************************)
\* Layouts: "hand" and "pretty" are valid JSON text of val.  The others are
\* text JSON.parse rejects: "trailing-comma" is the text of val with a comma
\* before a closing brace, "single-quoted" the text of val written with single
\* quotes only, "truncated" a text cut in the middle of a string.
Layouts == {"hand", "pretty", "trailing-comma", "single-quoted", "truncated"}

NoFile == [fmt |-> "none", val |-> EmptyConfig]

HandFile(c) == [fmt |-> "hand", val |-> c]

Exists(f) == f.fmt # "none"

\* JSON.parse succeeds on the text
ParsesOK(f) == f.fmt \in {"hand", "pretty"}

JSONparse(f) == f.val

\* JSON.stringify(config, null, 2)
JSONstringify(c) == [fmt |-> "pretty", val |-> c]

\* checkConfig (compact), "Simple common fixes": the trailing-comma and the
\* missing-comma pass make the text parse.
fixedParsesCompact(f) == f.fmt = "trailing-comma"

\* attemptJsonFix (beta): the four passes make the text parse.
fixedParsesBeta(f) == f.fmt \in {"trailing-comma", "single-quoted"}

(***************************************************************************)
(* The configuration operations, as the handlers compute them.             *)
(***************************************************************************)

\* listMcps / displayMcpStatus: the entries the menu offers, one per key of
\* each bucket (the values of mcpMap).
listMcps(config) ==
  {[name |-> n, enabled |-> TRUE] : n \in Keys(OrEmpty(config.mcpServers))}
    \cup {[name |-> n, enabled |-> FALSE] : n \in Keys(OrEmpty(config.disabledMcpServers))}

\* toggleMcp with the delete of the source entry left out.
toggleMcp_NoDelete(config, mcpInfo) ==
  LET c1 == IF ~IsTruthy(config.disabledMcpServers)
            THEN [config EXCEPT !.disabledMcpServers = EmptyObj]
            ELSE config
      name == mcpInfo.name
  IN  IF mcpInfo.enabled
      THEN [threw |-> FALSE,
            config |-> [c1 EXCEPT
               !.disabledMcpServers = ObjBucket(With(@.map, name, c1.mcpServers.map[name]))]]
      ELSE IF ~CanHoldProps(c1.mcpServers)
           THEN [threw |-> TRUE, config |-> config]
           ELSE [threw |-> FALSE,
                 config |-> [c1 EXCEPT
                    !.mcpServers = ObjBucket(With(@.map, name, c1.disabledMcpServers.map[name]))]]

\* toggleMcp with the enabling branch reading the definition from the wrong
\* bucket (undefined, which JSON.stringify drops: the entry is lost).
toggleMcp_WrongSource(config, mcpInfo) ==
  LET c1 == IF ~IsTruthy(config.disabledMcpServers)
            THEN [config EXCEPT !.disabledMcpServers = EmptyObj]
            ELSE config
      name == mcpInfo.name
  IN  IF mcpInfo.enabled
      THEN [threw |-> FALSE,
            config |-> [c1 EXCEPT
               !.disabledMcpServers = ObjBucket(With(@.map, name, c1.mcpServers.map[name])),
               !.mcpServers = ObjBucket(Without(@.map, name))]]
      ELSE IF ~CanHoldProps(c1.mcpServers)
           THEN [threw |-> TRUE, config |-> config]
           ELSE [threw |-> FALSE,
                 config |-> [c1 EXCEPT
                    !.disabledMcpServers = ObjBucket(Without(@.map, name))]]

\* toggleMcp(config, mcpInfo) and the body of handleToggleMcp: threw is TRUE
\* when an assignment hits an undefined bucket (TypeError).
toggleMcp(config, mcpInfo) ==
  LET c1 == IF ~IsTruthy(config.disabledMcpServers)
            THEN [config EXCEPT !.disabledMcpServers = EmptyObj]
            ELSE config
      name == mcpInfo.name
  IN  IF mcpInfo.enabled
      THEN [threw |-> FALSE,
            config |-> [c1 EXCEPT
               !.disabledMcpServers = ObjBucket(With(@.map, name, c1.mcpServers.map[name])),
               !.mcpServers = ObjBucket(Without(@.map, name))]]
      ELSE IF ~CanHoldProps(c1.mcpServers)
           THEN [threw |-> TRUE, config |-> config]
           ELSE [threw |-> FALSE,
                 config |-> [c1 EXCEPT
                    !.mcpServers = ObjBucket(With(@.map, name, c1.disabledMcpServers.map[name])),
                    !.disabledMcpServers = ObjBucket(Without(@.map, name))]]

\* showMainMenu case '7' (compact): writes only when disabledMcpServers is
\* truthy; Object.assign throws on an undefined target.
enableAllCompact(config) ==
  IF IsTruthy(config.disabledMcpServers)
  THEN IF ~CanHoldProps(config.mcpServers)
       THEN [threw |-> TRUE, write |-> FALSE, config |-> config]
       ELSE [threw |-> FALSE, write |-> TRUE,
             config |-> [config EXCEPT
                !.mcpServers = ObjBucket(Merge(@.map, config.disabledMcpServers.map)),
                !.disabledMcpServers = EmptyObj]]
  ELSE [threw |-> FALSE, write |-> FALSE, config |-> config]

\* handleExportAllEnabled (beta): always writes; the assignment inside the
\* loop throws on an undefined mcpServers when there is an entry to move.
handleExportAllEnabled(config) ==
  IF IsTruthy(config.disabledMcpServers)
  THEN IF Keys(config.disabledMcpServers) # {} /\ ~CanHoldProps(config.mcpServers)
       THEN [threw |-> TRUE, write |-> FALSE, config |-> config]
       ELSE [threw |-> FALSE, write |-> TRUE,
             config |-> [config EXCEPT
                !.mcpServers = IF Keys(config.disabledMcpServers) = {} THEN @
                               ELSE ObjBucket(Merge(@.map, config.disabledMcpServers.map)),
                !.disabledMcpServers = EmptyObj]]
  ELSE [threw |-> FALSE, write |-> TRUE, config |-> config]

\* allMcps / availableMcps: the names of both buckets, duplicates removed
\* (sorted for display only).
availableMcps(config) ==
  Keys(OrEmpty(config.mcpServers)) \cup Keys(OrEmpty(config.disabledMcpServers))

recommendedMcps(config) == {"filesystem", "mcp-installer"} \cap availableMcps(config)

\* What the user types at "Select MCPs": "r", "all" or a list of numbers;
\* picks are the names at the numbers typed.
Answers ==
  {[kind |-> "r", picks |-> {}], [kind |-> "all", picks |-> {}]}
    \cup {[kind |-> "nums", picks |-> S] : S \in SUBSET Names}

\* handleCustomConfig: the selection the answer resolves to; numbers out of
\* range are dropped.
selectedCompact(answer, config) ==
  CASE answer.kind = "r" -> recommendedMcps(config)
    [] answer.kind = "all" -> availableMcps(config)
    [] OTHER -> answer.picks \cap availableMcps(config)

\* handleExportMinimal: as above, and an empty list of numbers falls back to
\* the recommended names.
selectedBeta(answer, config) ==
  CASE answer.kind = "r" -> recommendedMcps(config)
    [] answer.kind = "all" -> availableMcps(config)
    [] OTHER -> IF answer.picks \cap availableMcps(config) = {}
                THEN recommendedMcps(config)
                ELSE answer.picks \cap availableMcps(config)

\* handleCustomConfig, "Build new configuration": a selected name is enabled
\* when allMcpsObj[mcp] is truthy; what is left of allMcpsObj is disabled.
handleCustomConfig(config, selected) ==
  LET allMcpsObj == Merge(config.mcpServers.map, config.disabledMcpServers.map)
      on == {mcp \in selected : HasTruthy(allMcpsObj, mcp)}
  IN  [config EXCEPT
         !.mcpServers = ObjBucket(Restrict(allMcpsObj, on)),
         !.disabledMcpServers = ObjBucket(Restrict(allMcpsObj, (DOMAIN allMcpsObj) \ on))]

\* handleExportMinimal, from "Create a merged copy of all MCPs".
handleExportMinimal(config, selectedMcps) ==
  LET allMcps == IF IsTruthy(config.disabledMcpServers)
                 THEN Merge(config.mcpServers.map, config.disabledMcpServers.map)
                 ELSE config.mcpServers.map
      on == {mcp \in selectedMcps : HasTruthy(allMcps, mcp)}
  IN  [config EXCEPT
         !.mcpServers = ObjBucket(Restrict(allMcps, on)),
         !.disabledMcpServers = ObjBucket(Restrict(allMcps, (DOMAIN allMcps) \ on))]

\* smartLoadPreset taking the definitions of the preset where it has them.
smartLoadPreset_PresetDefs(currentConfig, presetConfig) ==
  LET currentMcps == Merge(OrEmpty(currentConfig.mcpServers).map,
                           OrEmpty(currentConfig.disabledMcpServers).map)
      presetMcps == Merge(OrEmpty(presetConfig.mcpServers).map,
                          OrEmpty(presetConfig.disabledMcpServers).map)
      merged == Merge(currentMcps, Restrict(presetMcps, DOMAIN currentMcps))
      inPreset == {mcp \in DOMAIN currentMcps : HasTruthy(presetMcps, mcp)}
      on == {mcp \in inPreset : IsTruthy(presetConfig.mcpServers)
                                  /\ HasTruthy(presetConfig.mcpServers.map, mcp)}
  IN  [config |-> MkConfig(ObjBucket(Restrict(merged, on)),
                           ObjBucket(Restrict(merged, (DOMAIN merged) \ on)),
                           "none"),
       newMcps |-> (DOMAIN currentMcps) \ inPreset]

\* smartLoadPreset: the new configuration and the names reported as new.
smartLoadPreset(currentConfig, presetConfig) ==
  LET currentMcps == Merge(OrEmpty(currentConfig.mcpServers).map,
                           OrEmpty(currentConfig.disabledMcpServers).map)
      presetMcps == Merge(OrEmpty(presetConfig.mcpServers).map,
                          OrEmpty(presetConfig.disabledMcpServers).map)
      inPreset == {mcp \in DOMAIN currentMcps : HasTruthy(presetMcps, mcp)}
      on == {mcp \in inPreset : IsTruthy(presetConfig.mcpServers)
                                  /\ HasTruthy(presetConfig.mcpServers.map, mcp)}
  IN  [config |-> MkConfig(ObjBucket(Restrict(currentMcps, on)),
                           ObjBucket(Restrict(currentMcps, (DOMAIN currentMcps) \ on)),
                           "none"),
       newMcps |-> (DOMAIN currentMcps) \ inPreset]

\* checkConfig (compact): the structure issues it reports.
checkConfigIssues(config) ==
  (IF ~IsTruthy(config.mcpServers) THEN {"Missing mcpServers"} ELSE {})
    \cup (IF IsTruthy(config.disabledMcpServers) /\ ~TypeofObject(config.disabledMcpServers)
          THEN {"Invalid disabledMcpServers"} ELSE {})

\* checkConfigFix taking an empty mcpServers object away again.
checkConfigFix_DropEmpty(config) ==
  LET c1 == IF ~IsTruthy(config.mcpServers) THEN [config EXCEPT !.mcpServers = EmptyObj]
            ELSE IF config.mcpServers = EmptyObj
            THEN [config EXCEPT !.mcpServers = AbsentBucket]
            ELSE config
  IN  IF IsTruthy(c1.disabledMcpServers) /\ ~TypeofObject(c1.disabledMcpServers)
      THEN [c1 EXCEPT !.disabledMcpServers = EmptyObj]
      ELSE c1

\* checkConfig (compact), "Fix issues? y".
checkConfigFix(config) ==
  LET c1 == IF ~IsTruthy(config.mcpServers) THEN [config EXCEPT !.mcpServers = EmptyObj]
            ELSE config
  IN  IF IsTruthy(c1.disabledMcpServers) /\ ~TypeofObject(c1.disabledMcpServers)
      THEN [c1 EXCEPT !.disabledMcpServers = EmptyObj]
      ELSE c1

\* handleCheckFixConfig (beta): the structure issues it reports.
structureIssues(parsedConfig) ==
  (IF ~IsTruthy(parsedConfig.mcpServers) THEN {"Missing mcpServers"}
   ELSE IF ~TypeofObject(parsedConfig.mcpServers) THEN {"mcpServers is not an object"}
   ELSE {})
    \cup (IF IsTruthy(parsedConfig.disabledMcpServers)
             /\ ~TypeofObject(parsedConfig.disabledMcpServers)
          THEN {"disabledMcpServers is not an object"} ELSE {})

\* fixConfigStructure (beta), "Fix each reported issue".
fixConfigStructure(config) ==
  LET c1 == IF ~IsTruthy(config.mcpServers) \/ ~TypeofObject(config.mcpServers)
            THEN [config EXCEPT !.mcpServers = EmptyObj]
            ELSE config
  IN  IF IsTruthy(c1.disabledMcpServers) /\ ~TypeofObject(c1.disabledMcpServers)
      THEN [c1 EXCEPT !.disabledMcpServers = EmptyObj]
      ELSE c1

(***************************************************************************)
(* State.                                                                  *)
(*   live        claude_desktop_config.json                                *)
(*   latest      config-backups/config-latest-backup.json                  *)
(*   preRestore  config-backups/pre-restore-backup.json                    *)
(*   backups     config-backups/config-backup-<timestamp>.json, by instant *)
(*   presets     presets/<name>.json, by name                              *)
(*   clock       the instant new Date() returns                            *)
(*   proc        "menu" while the tool runs, "crashed" after an uncaught   *)
(*               exception, "exited" after process.exit(1)                 *)
(*   last        the last handler run: what was asked, how it ended and   *)
(*               the live file before it                                   *)
(*   prev        the run before that, in brief                             *)
(*   steps       the number of handler runs so far                         *)
(*   budget      the number of handler runs explored                       *)
(***************************************************************************)
PresetNames == {"work"}

\* A number typed at "Select preset to load" that stands for no preset.
AbsentPreset == "(none)"

NoPresets == [p \in {} |-> NoFile]

NoBackups == [t \in {} |-> NoFile]

\* How the writes of one handler run end: all succeed, the write into the
\* backup directory fails, or the write of the live file fails.
IoOutcomes == {"ok", "backupFails", "liveFails"}

NoRun ==
  [op |-> "none", variant |-> "none", name |-> "", enabled |-> FALSE, sel |-> {},
   pname |-> "", stamp |-> 0, io |-> "ok", outcome |-> "none", backup |-> "none",
   news |-> {}, before |-> NoFile, shown |-> <<>>]

Running == proc = "menu" /\ steps < budget

\* What prev keeps of a run.
Brief(run) == [op |-> run.op, variant |-> run.variant, name |-> run.name, outcome |-> run.outcome]

Log(run) ==
  /\ last' = run
  /\ prev' = Brief(last)
  /\ steps' = steps + 1
  /\ UNCHANGED budget

\* writeConfig(config): the latest backup is written first, inside the same
\* try block as the write of the live file.
writeConfig(config, io) ==
  [latest |-> IF io = "backupFails" THEN latest ELSE live,
   live |-> IF io = "ok" THEN JSONstringify(config) ELSE live,
   outcome |-> IF io = "ok" THEN "wrote" ELSE "failed",
   backup |-> IF io = "backupFails" THEN "none" ELSE "latest"]

(***************************************************************************)
(* File names of the backup directory.  A name is the sequence of its      *)
(* characters; sort() compares names by character code.                    *)
(***************************************************************************)
\* The characters of the names, in the order of their codes.
Chars ==
  <<"-", ".", "0", "1", "2", "3", "4", "5", "6", "7", "8", "9", ":", "T", "Z",
    "a", "b", "c", "e", "f", "g", "i", "j", "k", "l", "n", "o", "p", "r", "s",
    "t", "u">>

Code(ch) == CHOOSE i \in 1..Len(Chars) : Chars[i] = ch

DigitChar(d) == Chars[d + 3]

\* String(n).padStart(w, "0"), as toISOString pads every field
Pad(n, w) == [i \in 1..w |-> DigitChar((n \div (10 ^ (w - i))) % 10)]

\* The instant new Date() returns at clock tick t: a time of 1 January 2025
\* (UTC), the ticks 50.902 s apart from 00:00:09.099 on.
MsOfDay(t) == 9099 + t * 50902

\* new Date().toISOString(): YYYY-MM-DDTHH:mm:ss.sssZ
toISOString(t) ==
  LET ms == MsOfDay(t)
  IN  Pad(2025, 4) \o <<"-">> \o Pad(1, 2) \o <<"-">> \o Pad(1, 2) \o <<"T">>
        \o Pad(ms \div 3600000, 2) \o <<":">> \o Pad((ms \div 60000) % 60, 2) \o <<":">>
        \o Pad((ms \div 1000) % 60, 2) \o <<".">> \o Pad(ms % 1000, 3) \o <<"Z">>

\* .replace(/[:.]/g, '-')
replaceColonsDots(str) == [i \in 1..Len(str) |-> IF str[i] \in {":", "."} THEN "-" ELSE str[i]]

BackupPrefix == <<"c", "o", "n", "f", "i", "g", "-", "b", "a", "c", "k", "u", "p", "-">>

JsonSuffix == <<".", "j", "s", "o", "n">>

\* `config-backup-${timestamp}.json`
BackupName(t) == BackupPrefix \o replaceColonsDots(toISOString(t)) \o JsonSuffix

LatestName ==
  <<"c", "o", "n", "f", "i", "g", "-", "l", "a", "t", "e", "s", "t", "-",
    "b", "a", "c", "k", "u", "p">> \o JsonSuffix

PreRestoreName ==
  <<"p", "r", "e", "-", "r", "e", "s", "t", "o", "r", "e", "-",
    "b", "a", "c", "k", "u", "p">> \o JsonSuffix

\* The name of the timestamped backup of every instant of the clock.
NameAt == [t \in 0..MaxClock |-> BackupName(t)]

\* fs.readdirSync(BACKUP_DIR)
readdirSync ==
  {NameAt[t] : t \in DOMAIN backups}
    \cup (IF Exists(latest) THEN {LatestName} ELSE {})
    \cup (IF Exists(preRestore) THEN {PreRestoreName} ELSE {})

startsWith(str, prefix) ==
  Len(str) >= Len(prefix) /\ SubSeq(str, 1, Len(prefix)) = prefix

endsWith(str, suffix) ==
  Len(str) >= Len(suffix) /\ SubSeq(str, Len(str) - Len(suffix) + 1, Len(str)) = suffix

\* a < b as sort() without a comparator decides it: by the codes of the first
\* characters that differ, a proper prefix first.
LexLess(a, b) ==
  \E i \in 1..Len(b) :
    /\ \A j \in 1..(i - 1) : j <= Len(a) /\ a[j] = b[j]
    /\ (i > Len(a) \/ (a[i] # b[i] /\ Code(a[i]) < Code(b[i])))

\* The file names the backup directory can hold, and their order.
DirNames == {NameAt[t] : t \in 0..MaxClock} \cup {LatestName, PreRestoreName}

Precedes == [a \in DirNames, b \in DirNames |-> LexLess(a, b)]

RECURSIVE sorted(_)
\* [...S].sort()
sorted(S) ==
  IF S = {} THEN <<>>
  ELSE LET least == CHOOSE a \in S : \A b \in S \ {a} : Precedes[a, b]
       IN  <<least>> \o sorted(S \ {least})

reverse(seq) == [i \in 1..Len(seq) |-> seq[Len(seq) + 1 - i]]

\* getBackups with the reverse() left out.
getBackups_NoReverse ==
  sorted({f \in readdirSync : startsWith(f, BackupPrefix) /\ endsWith(f, JsonSuffix)})

\* getBackups / getAvailableBackups: the names the backup menus list.
getBackups ==
  reverse(sorted({f \in readdirSync : startsWith(f, BackupPrefix) /\ endsWith(f, JsonSuffix)}))

\* How a failed write is reported.  The compact tool calls ui.error.  The
\* beta tool calls error(...) inside catch (error), where error is the caught
\* exception and not the helper: a TypeError leaves the catch block, and ends
\* the process unless a caller catches it.
Reported == {FALSE}

Uncaught == {TRUE}

EitherTool == {FALSE, TRUE}

\* The end of a handler run whose write failed, uncaught telling whether the
\* TypeError reaches the event loop.
Ended(run, failed, uncaught, done) ==
  /\ proc' = IF failed /\ uncaught THEN "crashed" ELSE proc
  /\ Log([run EXCEPT !.outcome = IF ~failed THEN done
                                  ELSE IF uncaught THEN "threw" ELSE "failed"])

\* The part every handler that ends in writeConfig shares.
WriteBack(run, config, io, reports) ==
  LET w == writeConfig(config, io)
  IN  /\ live' = w.live
      /\ latest' = w.latest
      /\ \E uncaught \in reports :
            Ended([run EXCEPT !.backup = w.backup], io # "ok", uncaught, "wrote")
      /\ UNCHANGED <<preRestore, backups, presets, clock>>

\* An uncaught exception in a readline callback ends the process.
Crash(run) ==
  /\ proc' = "crashed"
  /\ Log([run EXCEPT !.outcome = "threw", !.io = "ok"])
  /\ UNCHANGED <<live, latest, preRestore, backups, presets, clock>>

\* The handler reports and returns to a menu without writing anything.
NoWrite(run, how) ==
  /\ Log([run EXCEPT !.outcome = how, !.io = "ok"])
  /\ UNCHANGED <<live, latest, preRestore, backups, presets, clock, proc>>

InvalidAnswer == [name |-> "", enabled |-> FALSE]

\* Menu 1, Toggle MCP Servers (handleToggleMcp; handleToggleMcps in beta).
handleToggleMcp(mcpInfo, io) ==
  /\ Running
  /\ ParsesOK(live)
  /\ LET config == JSONparse(live)
         run == [NoRun EXCEPT !.op = "toggle", !.name = mcpInfo.name,
                              !.enabled = mcpInfo.enabled, !.io = io, !.before = live]
     IN  IF mcpInfo \notin listMcps(config)
         THEN NoWrite(run, "invalid")
         ELSE LET r == toggleMcp(config, mcpInfo)
              IN  IF r.threw THEN Crash(run) ELSE WriteBack(run, r.config, io, EitherTool)

\* Menu 7, Enable All MCPs (compact).
EnableAllCompact(io) ==
  /\ Running
  /\ ParsesOK(live)
  /\ LET r == enableAllCompact(JSONparse(live))
         run == [NoRun EXCEPT !.op = "enableAll", !.variant = "compact", !.io = io,
                              !.before = live]
     IN  IF r.threw THEN Crash(run)
         ELSE IF r.write THEN WriteBack(run, r.config, io, Reported)
         ELSE NoWrite(run, "nowrite")

\* Menu 4, Export All MCPs as Enabled (beta).
EnableAllBeta(io) ==
  /\ Running
  /\ ParsesOK(live)
  /\ LET r == handleExportAllEnabled(JSONparse(live))
         run == [NoRun EXCEPT !.op = "enableAll", !.variant = "beta", !.io = io,
                              !.before = live]
     IN  IF r.threw THEN Crash(run) ELSE WriteBack(run, r.config, io, Uncaught)

\* Menu 4, Create Custom Configuration (compact).
CustomConfigCompact(answer, io) ==
  /\ Running
  /\ ParsesOK(live)
  /\ LET config == JSONparse(live)
         selected == selectedCompact(answer, config)
         run == [NoRun EXCEPT !.op = "custom", !.variant = "compact", !.sel = selected,
                              !.io = io, !.before = live]
     IN  WriteBack(run, handleCustomConfig(config, selected), io, Reported)

\* Menu 5, Create Custom Configuration (beta).
CustomConfigBeta(answer, io) ==
  /\ Running
  /\ ParsesOK(live)
  /\ LET config == JSONparse(live)
         selectedMcps == selectedBeta(answer, config)
         run == [NoRun EXCEPT !.op = "custom", !.variant = "beta", !.sel = selectedMcps,
                              !.io = io, !.before = live]
     IN  WriteBack(run, handleExportMinimal(config, selectedMcps), io, Uncaught)

\* Menu 3, Load Preset, method 2 (compact): smartLoadPreset on the preset
\* chosen.
SmartLoad(pname, io) ==
  /\ Running
  /\ pname \in DOMAIN presets
  /\ ParsesOK(presets[pname])
  /\ ParsesOK(live)
  /\ LET r == smartLoadPreset(JSONparse(live), JSONparse(presets[pname]))
         run == [NoRun EXCEPT !.op = "smartLoad", !.variant = "compact", !.pname = pname,
                              !.news = r.newMcps, !.io = io, !.before = live]
     IN  WriteBack(run, r.config, io, Reported)

\* readConfig on a live file that does not parse: process.exit(1).
ReadingOps == {"toggle", "enableAll", "custom", "smartLoad", "savePreset"}

readConfigExit(op) ==
  /\ Running
  /\ ~ParsesOK(live)
  /\ op = "smartLoad" => presets # NoPresets
  /\ proc' = "exited"
  /\ Log([NoRun EXCEPT !.op = op, !.outcome = "exit", !.before = live])
  /\ UNCHANGED <<live, latest, preRestore, backups, presets, clock>>

\* StandardLoad taking the preset file away once it is loaded.
StandardLoad_Consumes(pname, io) ==
  /\ Running
  /\ pname \in DOMAIN presets
  /\ ParsesOK(presets[pname])
  /\ LET w == writeConfig(JSONparse(presets[pname]), io)
         run == [NoRun EXCEPT !.op = "standardLoad", !.pname = pname, !.io = io,
                              !.before = live, !.backup = w.backup]
     IN  /\ live' = w.live
         /\ latest' = w.latest
         /\ presets' = [p \in (DOMAIN presets) \ {pname} |-> presets[p]]
         /\ Ended(run, io # "ok", FALSE, "wrote")
         /\ UNCHANGED <<preRestore, backups, clock>>

\* Menu 3, Load Preset, standard load (handlePresets method 1;
\* handleLoadPreset in beta): the live file is not read, and what writeConfig
\* throws in beta is caught by the handler.  The preset is picked by number
\* from the files of the preset directory.
StandardLoad(pname, io) ==
  /\ Running
  /\ LET run == [NoRun EXCEPT !.op = "standardLoad", !.pname = pname, !.io = io,
                              !.before = live]
     IN  IF presets = NoPresets THEN NoWrite(run, "unavailable")
         ELSE IF pname \notin DOMAIN presets THEN NoWrite(run, "invalid")
         ELSE IF ~ParsesOK(presets[pname])
         THEN NoWrite(run, "failed")
         ELSE WriteBack(run, JSONparse(presets[pname]), io, Reported)

\* SavePreset leaving a preset file that already exists as it is.
SavePreset_KeepExisting(pname, io) ==
  /\ Running
  /\ ParsesOK(live)
  /\ presets' = IF io = "ok" /\ pname \notin DOMAIN presets
                THEN [p \in (DOMAIN presets) \cup {pname} |->
                        IF p = pname THEN JSONstringify(JSONparse(live)) ELSE presets[p]]
                ELSE presets
  /\ \E uncaught \in EitherTool :
        Ended([NoRun EXCEPT !.op = "savePreset", !.pname = pname, !.io = io,
                            !.before = live],
              io # "ok", uncaught, "saved")
  /\ UNCHANGED <<live, latest, preRestore, backups, clock>>

\* Menu 2, Save Configuration as Preset (handleSavePreset, savePreset).
SavePreset(pname, io) ==
  /\ Running
  /\ ParsesOK(live)
  /\ presets' = IF io = "ok"
                THEN [p \in (DOMAIN presets) \cup {pname} |->
                        IF p = pname THEN JSONstringify(JSONparse(live)) ELSE presets[p]]
                ELSE presets
  /\ \E uncaught \in EitherTool :
        Ended([NoRun EXCEPT !.op = "savePreset", !.pname = pname, !.io = io,
                            !.before = live],
              io # "ok", uncaught, "saved")
  /\ UNCHANGED <<live, latest, preRestore, backups, clock>>

\* The files of the backup directory after a timestamped copy of the live
\* file is written at the current instant.
Stamped(bs) == [t \in (DOMAIN bs) \cup {clock} |-> IF t = clock THEN live ELSE bs[t]]

\* Backup menu 1, Create Manual Backup (createBackup, createManualBackup).
CreateBackup(io) ==
  /\ Running
  /\ backups' = IF io = "ok" THEN Stamped(backups) ELSE backups
  /\ \E uncaught \in EitherTool :
        Ended([NoRun EXCEPT !.op = "createBackup", !.stamp = clock, !.io = io,
                            !.backup = IF io = "ok" THEN "stamped" ELSE "none",
                            !.before = live],
              io # "ok", uncaught, "saved")
  /\ UNCHANGED <<live, latest, preRestore, presets, clock>>

\* Time passes: the next snapshot gets a later stamp.  A stamp nobody has
\* used yet is as good as any later one, so the clock moves only past used ones.
Tick ==
  /\ clock < MaxClock
  /\ clock \in DOMAIN backups
  /\ clock' = clock + 1
  /\ UNCHANGED <<live, latest, preRestore, backups, presets, proc, last, prev, steps, budget>>

\* RestoreFrom with the copy into the pre-restore slot taken after the
\* overwrite of the live file.
RestoreFrom_CopyAfter(run, source, io, reports) ==
  /\ live' = IF io = "ok" /\ Exists(source) THEN source ELSE live
  /\ preRestore' = IF io = "backupFails" THEN preRestore ELSE live'
  /\ \E uncaught \in reports :
        Ended([run EXCEPT !.backup = IF io = "backupFails" THEN "none" ELSE "pre-restore"],
              ~(io = "ok" /\ Exists(source)), uncaught, "wrote")
  /\ UNCHANGED <<latest, backups, presets, clock>>

\* The try block of the three restore handlers: the pre-restore copy, then
\* the overwrite of the live file with the bytes of source.
RestoreFrom(run, source, io, reports) ==
  /\ preRestore' = IF io = "backupFails" THEN preRestore ELSE live
  /\ live' = IF io = "ok" /\ Exists(source) THEN source ELSE live
  /\ \E uncaught \in reports :
        Ended([run EXCEPT !.backup = IF io = "backupFails" THEN "none" ELSE "pre-restore"],
              ~(io = "ok" /\ Exists(source)), uncaught, "wrote")
  /\ UNCHANGED <<latest, backups, presets, clock>>

\* A number typed at a backup prompt that stands for no listed backup.
AbsentStamp == MaxClock + 1

\* The answers at "Select backup": 0, the number of a listed backup, or a
\* number out of range.
RestoreTargets == {[slot |-> "latest", stamp |-> 0]}
                    \cup {[slot |-> "stamped", stamp |-> t] : t \in (DOMAIN backups) \cup {AbsentStamp}}

\* Backup menu 2, Restore Backup (compact restoreBackup): offered only when a
\* timestamped backup exists; answer 0 is the latest slot.
restoreBackup(target, io) ==
  /\ Running
  /\ LET run == [NoRun EXCEPT !.op = "restore", !.variant = "compact",
                              !.name = target.slot, !.stamp = target.stamp, !.io = io,
                              !.before = live]
     IN  IF DOMAIN backups = {}
         THEN NoWrite(run, "unavailable")
         ELSE IF target.slot = "stamped" /\ target.stamp \notin DOMAIN backups
         THEN NoWrite(run, "invalid")
         ELSE RestoreFrom(run, IF target.slot = "latest" THEN latest
                               ELSE backups[target.stamp], io, Reported)

\* Backup menu 2, Restore Latest Backup (beta): the backup is parsed before
\* anything is written, inside the try block whose catch block throws.
handleRestoreLatestBackup(io) ==
  /\ Running
  /\ LET run == [NoRun EXCEPT !.op = "restore", !.variant = "beta", !.name = "latest",
                              !.io = io, !.before = live]
     IN  IF ~Exists(latest) THEN NoWrite(run, "unavailable")
         ELSE IF ~ParsesOK(latest) THEN Crash(run)
         ELSE RestoreFrom(run, latest, io, Uncaught)

\* Backup menu 3, Restore From Specific Backup (beta).
handleRestoreSpecificBackup(stamp, io) ==
  /\ Running
  /\ LET run == [NoRun EXCEPT !.op = "restore", !.variant = "beta", !.name = "stamped",
                              !.stamp = stamp, !.io = io, !.before = live]
     IN  IF DOMAIN backups = {} THEN NoWrite(run, "unavailable")
         ELSE IF stamp \notin DOMAIN backups THEN NoWrite(run, "invalid")
         ELSE IF ~ParsesOK(backups[stamp]) THEN Crash(run)
         ELSE RestoreFrom(run, backups[stamp], io, Uncaught)

\* Menu 6, Check/Fix Config File (compact checkConfig), answering y: the
\* structure fix writes the live file with no backup and outside any try
\* block; the JSON repair writes it inside one.
checkConfig(io) ==
  /\ Running
  /\ io \in {"ok", "liveFails"}
  /\ IF ParsesOK(live)
     THEN LET config == JSONparse(live)
              run == [NoRun EXCEPT !.op = "structureFix", !.variant = "compact", !.io = io,
                                   !.before = live]
          IN  IF checkConfigIssues(config) = {} THEN NoWrite(run, "valid")
              ELSE IF io = "liveFails" THEN Crash(run)
              ELSE /\ live' = JSONstringify(checkConfigFix(config))
                   /\ Log([run EXCEPT !.outcome = "wrote"])
                   /\ UNCHANGED <<latest, preRestore, backups, presets, clock, proc>>
     ELSE LET run == [NoRun EXCEPT !.op = "jsonRepair", !.variant = "compact", !.io = io,
                                   !.before = live]
          IN  IF fixedParsesCompact(live) /\ io = "ok"
              THEN /\ live' = JSONstringify(JSONparse(live))
                   /\ Log([run EXCEPT !.outcome = "wrote"])
                   /\ UNCHANGED <<latest, preRestore, backups, presets, clock, proc>>
              ELSE NoWrite(run, "failed")

\* createManualBackupSilent: the timestamped copy; the catch block of a failed
\* copy throws (error is the caught exception), so there is no return value.
createManualBackupSilent(io) ==
  [threw |-> io = "backupFails",
   backups |-> IF io = "backupFails" THEN backups ELSE Stamped(backups)]

\* Menu 7, Check/Fix Config File (beta handleCheckFixConfig), answering y:
\* fixConfigStructure on a file that parses, attemptJsonFix on one that does
\* not; both start with createManualBackupSilent, and every catch block on
\* the way throws: a failed backup, a failed write and a text the repair
\* cannot parse all end the process.
handleCheckFixConfig(io) ==
  /\ Running
  /\ LET parses == ParsesOK(live)
         run == [NoRun EXCEPT !.op = IF parses THEN "structureFix" ELSE "jsonRepair",
                              !.variant = "beta", !.io = io, !.stamp = clock,
                              !.before = live]
         b == createManualBackupSilent(io)
         fixed == IF parses THEN fixConfigStructure(JSONparse(live)) ELSE JSONparse(live)
         written == ~b.threw /\ io = "ok" /\ (parses \/ fixedParsesBeta(live))
     IN  IF parses /\ structureIssues(JSONparse(live)) = {} THEN NoWrite(run, "valid")
         ELSE /\ backups' = b.backups
              /\ live' = IF written THEN JSONstringify(fixed) ELSE live
              /\ Ended([run EXCEPT !.backup = IF b.threw THEN "none" ELSE "stamped"],
                       ~written, TRUE, "wrote")
              /\ UNCHANGED <<latest, preRestore, presets, clock>>

\* The files of the backup directory after unlinkSync of the names given.
Unlinked(names) ==
  [t \in {u \in DOMAIN backups : NameAt[u] \notin names} |-> backups[t]]

\* Backup menu, Manage Backups, Delete specific backup (compact manageBackups
\* case '1', beta handleDeleteSpecificBackup): idx is the number typed, an
\* index into the list shown.
DeleteBackup(idx, io) ==
  /\ Running
  /\ LET run == [NoRun EXCEPT !.op = "delete", !.stamp = idx, !.io = io, !.before = live]
         shown == getBackups
     IN  IF Len(shown) = 0 THEN NoWrite(run, "unavailable")
         ELSE IF idx \notin 1..Len(shown) THEN NoWrite(run, "invalid")
         ELSE /\ backups' = IF io = "ok" THEN Unlinked({shown[idx]}) ELSE backups
              /\ \E uncaught \in EitherTool : Ended(run, io # "ok", uncaught, "deleted")
              /\ UNCHANGED <<live, latest, preRestore, presets, clock>>

\* DeleteAllBackups removing the latest slot with the snapshots.
DeleteAllBackups_AlsoLatest(io) ==
  /\ Running
  /\ LET run == [NoRun EXCEPT !.op = "deleteAll", !.io = io, !.before = live]
     IN  IF Len(getBackups) = 0 THEN NoWrite(run, "unavailable")
         ELSE /\ backups' = IF io = "ok" THEN NoBackups ELSE backups
              /\ latest' = IF io = "ok" THEN NoFile ELSE latest
              /\ \E uncaught \in EitherTool : Ended(run, io # "ok", uncaught, "deleted")
              /\ UNCHANGED <<live, preRestore, presets, clock>>

\* Backup menu, Manage Backups, Delete all backups (compact manageBackups
\* case '2', beta handleDeleteAllBackups), answering y: unlinkSync of every
\* name of the list shown.  The compact tool skips a file it cannot delete
\* and reports the count; the beta tool stops at the first one.
DeleteAllBackups(io) ==
  /\ Running
  /\ LET run == [NoRun EXCEPT !.op = "deleteAll", !.io = io, !.before = live]
         shown == getBackups
         listed == {shown[i] : i \in 1..Len(shown)}
     IN  IF Len(shown) = 0 THEN NoWrite(run, "unavailable")
         ELSE /\ backups' = IF io = "ok" THEN Unlinked(listed) ELSE backups
              /\ \E uncaught \in EitherTool : Ended(run, io # "ok", uncaught, "deleted")
              /\ UNCHANGED <<live, latest, preRestore, presets, clock>>

\* The user starts the tool again after it ended.
Launch ==
  /\ proc # "menu"
  /\ proc' = "menu"
  /\ UNCHANGED <<live, latest, preRestore, backups, presets, clock, last, prev, steps, budget>>

(***************************************************************************)
(* Configurations the specifications start from.                           *)
(***************************************************************************)
BucketMaps(D) == UNION {[S -> D] : S \in SUBSET Names}

BucketsOver(D) == {AbsentBucket} \cup {ObjBucket(m) : m \in BucketMaps(D)}

ConfigsOver(D, O) ==
  {MkConfig(e, d, o) : e \in BucketsOver(D), d \in BucketsOver(D), o \in O}

\* No server name is a key of both buckets.
Disjoint(c) == Keys(c.mcpServers) \cap Keys(c.disabledMcpServers) = {}

\* The known names with their definition values, over both buckets.
UnionMap(c) == Merge(c.mcpServers.map, c.disabledMcpServers.map)

InitStore ==
  /\ latest = NoFile
  /\ preRestore = NoFile
  /\ backups = NoBackups
  /\ clock = 1
  /\ proc = "menu"
  /\ last = NoRun
  /\ prev = Brief(NoRun)
  /\ steps = 0

(***************************************************************************)
(* SpecCfg: sequences of the four configuration operations (toggle,        *)
(* enableAll, custom selection, smart preset load) on a configuration file *)
(* the user wrote, with at most one preset saved earlier.                  *)
(***************************************************************************)
CfgDefs == {"{\"command\":\"node\"}", "null"}

CfgOther == "{\"globalShortcut\":\"Ctrl+Space\"}"

\* Presets saved earlier: none; one that enables every name with another
\* definition; one that holds every name in both buckets; one that enables
\* the first name and disables the others; one that enables every name with
\* the definition null; one that knows no name.
StaleDef == "{\"command\":\"uvx\"}"

AllNames(d) == [n \in Names |-> d]

CfgPresets ==
  {MkConfig(ObjBucket(AllNames(StaleDef)), AbsentBucket, "none"),
   MkConfig(ObjBucket(AllNames(StaleDef)), ObjBucket(AllNames("null")), "none"),
   MkConfig(ObjBucket(Restrict(AllNames(StaleDef), {NameUniverse[1]})),
            ObjBucket(Restrict(AllNames(StaleDef), Names \ {NameUniverse[1]})), "none"),
   MkConfig(ObjBucket(AllNames("null")), EmptyObj, "none"),
   MkConfig(EmptyObj, EmptyObj, "none")}

InitCfg ==
  /\ InitStore
  /\ budget = MaxSteps
  /\ live \in {HandFile(c) : c \in {x \in ConfigsOver(CfgDefs, {CfgOther}) : Disjoint(x)}}
  /\ presets \in {NoPresets} \cup {[p \in {"work"} |-> JSONstringify(c)] : c \in CfgPresets}

NextCfg ==
  \/ \E mcpInfo \in listMcps(JSONparse(live)) : handleToggleMcp(mcpInfo, "ok")
  \/ EnableAllCompact("ok")
  \/ EnableAllBeta("ok")
  \/ \E answer \in Answers : CustomConfigCompact(answer, "ok")
  \/ \E answer \in Answers : CustomConfigBeta(answer, "ok")
  \/ \E pname \in PresetNames : SmartLoad(pname, "ok")
  \/ Launch

SpecCfg == InitCfg /\ [][NextCfg]_vars

(***************************************************************************)
(* Properties of the configuration operations over sequences (SpecCfg).    *)
(***************************************************************************)
CfgOps == {"toggle", "enableAll", "custom", "smartLoad"}

\* C1: starting from buckets that share no key, after any sequence of toggle,
\* enableAll, custom selection and smart preset load no server name is a key
\* of both mcpServers and disabledMcpServers of the live file.
C1_BucketsDisjoint == Disjoint(JSONparse(live))

\* A smart load after a toggle, both written, with names in both buckets.
C1_Witness ==
  /\ prev.op = "toggle" /\ prev.outcome = "wrote"
  /\ last.op = "smartLoad" /\ last.outcome = "wrote"
  /\ Keys(JSONparse(live).mcpServers) # {}
  /\ Keys(JSONparse(live).disabledMcpServers) # {}

\* C2: each of the four operations leaves the mapping from known name to
\* definition value, taken over both buckets, as it was before the run: no
\* name is created or lost and no definition changes, along every sequence.
C2_UnionPreserved ==
  last.op \in CfgOps => UnionMap(JSONparse(live)) = UnionMap(JSONparse(last.before))

\* A custom selection after a smart load that moved a name whose definition
\* differs from the preset's.
C2_Witness ==
  /\ prev.op = "smartLoad" /\ prev.outcome = "wrote"
  /\ last.op = "custom" /\ last.outcome = "wrote"
  /\ \E n \in Keys(JSONparse(live).mcpServers) :
        /\ n \in Keys(JSONparse(last.before).disabledMcpServers)
        /\ JSONparse(live).mcpServers.map[n] # StaleDef
  /\ JSONparse(presets["work"]).mcpServers.map # EmptyMap

\* C7: two toggles of the same name in succession, however each ends, leave
\* every name in the bucket it was in before the first, with the definition
\* it had.
C7_ToggleTwice ==
  [][(/\ last.op = "toggle"
      /\ steps' = steps + 1
      /\ last'.op = "toggle"
      /\ last'.name = last.name)
     => (/\ JSONparse(live').mcpServers.map = JSONparse(last.before).mcpServers.map
         /\ JSONparse(live').disabledMcpServers.map
              = JSONparse(last.before).disabledMcpServers.map)]_vars

\* The second of two written toggles of one name, with another name known.
C7_Witness ==
  /\ prev.op = "toggle" /\ prev.outcome = "wrote"
  /\ last.op = "toggle" /\ last.outcome = "wrote"
  /\ prev.name = last.name
  /\ Cardinality(DOMAIN UnionMap(JSONparse(live))) > 1

\* C8: enableAll succeeds on every configuration, leaves disabled empty and
\* enabled holding every known name with its definition, and a second
\* enableAll changes nothing.
C8_EnableAll ==
  last.op = "enableAll" =>
    /\ last.outcome \in {"wrote", "nowrite"}
    /\ Keys(JSONparse(live).disabledMcpServers) = {}
    /\ JSONparse(live).mcpServers.map = UnionMap(JSONparse(last.before))
    /\ (prev.op = "enableAll" => JSONparse(live) = JSONparse(last.before))

\* What a toggle of name n, listed as enabled or not, must leave of the
\* configuration before.
Toggled(before, now, n, enabled) ==
  LET from == IF enabled THEN before.mcpServers ELSE before.disabledMcpServers
      src == IF enabled THEN now.mcpServers ELSE now.disabledMcpServers
      dst == IF enabled THEN now.disabledMcpServers ELSE now.mcpServers
  IN  /\ n \in Keys(dst) /\ n \notin Keys(src)
      /\ dst.map[n] = from.map[n]
      /\ Without(now.mcpServers.map, n) = Without(before.mcpServers.map, n)
      /\ Without(now.disabledMcpServers.map, n) = Without(before.disabledMcpServers.map, n)

\* C6: on every configuration, an absent bucket key counting as an empty
\* bucket, a toggle of a listed name n leaves n in the other bucket only, with
\* the same definition, and every other entry where it was.
C6_Toggle ==
  last.op = "toggle" =>
    Toggled(JSONparse(last.before), JSONparse(live), last.name, last.enabled)

\* C9: after a custom selection of the names S, whatever JSON values the
\* definitions are, the keys of enabled are the known names in S and the keys
\* of disabled the known names outside S.
C9_SelectExactly ==
  last.op = "custom" =>
    LET known == DOMAIN UnionMap(JSONparse(last.before))
    IN  /\ Keys(JSONparse(live).mcpServers) = last.sel \cap known
        /\ Keys(JSONparse(live).disabledMcpServers) = known \ last.sel

\* C10: after a smart load, enabled holds the known names that are keys of
\* the preset's enabled bucket and disabled every other known name, each with
\* the definition the live file had; a name only the preset has is in neither.
C10_SmartMerge ==
  last.op = "smartLoad" =>
    LET current == UnionMap(JSONparse(last.before))
        preset == JSONparse(presets[last.pname])
        on == (DOMAIN current) \cap Keys(preset.mcpServers)
    IN  /\ JSONparse(live).mcpServers.map = Restrict(current, on)
        /\ JSONparse(live).disabledMcpServers.map = Restrict(current, (DOMAIN current) \ on)

\* C11: a smart load reports as new exactly the names known to the live file
\* that the preset holds in neither bucket, whatever their definition in the
\* preset, and every reported name is written as disabled.
C11_NewlyDiscovered ==
  last.op = "smartLoad" =>
    LET current == UnionMap(JSONparse(last.before))
        preset == JSONparse(presets[last.pname])
    IN  /\ last.news = (DOMAIN current) \ (Keys(preset.mcpServers) \cup Keys(preset.disabledMcpServers))
        /\ last.news \subseteq Keys(JSONparse(live).disabledMcpServers)

(***************************************************************************)
(* Spec: every handler of both variants, with write failures, started on a *)
(* configuration directory that has been used before.                      *)
(***************************************************************************)
NodeDef == "{\"command\":\"node\"}"

NpxDef == "{\"command\":\"npx\"}"

\* A configuration with one enabled and one disabled server, and the same
\* with the mcpServers key missing.
UsualConfig ==
  MkConfig(ObjBucket([n \in {NameUniverse[1]} |-> NodeDef]),
           ObjBucket([n \in {NameUniverse[2]} |-> NpxDef]), CfgOther)

NoEnabledKeyConfig ==
  MkConfig(AbsentBucket, ObjBucket([n \in {NameUniverse[2]} |-> NpxDef]), CfgOther)

\* What an earlier session left: the live file before its last write, and a
\* preset saved when another server was installed.
EarlierConfig ==
  MkConfig(ObjBucket([n \in {NameUniverse[1], NameUniverse[2]} |-> NodeDef]), EmptyObj, CfgOther)

EarlierPreset ==
  MkConfig(ObjBucket([n \in {NameUniverse[2]} |-> StaleDef]), EmptyObj, "{\"theme\":\"dark\"}")

InitLive ==
  {HandFile(UsualConfig), HandFile(NoEnabledKeyConfig)}
    \cup {[fmt |-> l, val |-> UsualConfig] : l \in {"trailing-comma", "single-quoted", "truncated"}}

Init ==
  /\ live \in InitLive
  /\ \/ latest = NoFile /\ backups = NoBackups
     \/ latest = JSONstringify(EarlierConfig) /\ backups = [t \in {0} |-> HandFile(EarlierConfig)]
  /\ preRestore = NoFile
  /\ presets \in {NoPresets, [p \in {"work"} |-> JSONstringify(EarlierPreset)]}
  /\ clock = 1
  /\ proc = "menu"
  /\ last = NoRun
  /\ prev = Brief(NoRun)
  /\ steps = 0
  /\ budget = MaxRuns

Next ==
  \/ \E mcpInfo \in listMcps(JSONparse(live)) \cup {InvalidAnswer}, io \in IoOutcomes :
        handleToggleMcp(mcpInfo, io)
  \/ \E io \in IoOutcomes : EnableAllCompact(io)
  \/ \E io \in IoOutcomes : EnableAllBeta(io)
  \/ \E answer \in Answers, io \in IoOutcomes : CustomConfigCompact(answer, io)
  \/ \E answer \in Answers, io \in IoOutcomes : CustomConfigBeta(answer, io)
  \/ \E pname \in PresetNames, io \in IoOutcomes : SmartLoad(pname, io)
  \/ \E pname \in PresetNames \cup {AbsentPreset}, io \in IoOutcomes : StandardLoad(pname, io)
  \/ \E pname \in PresetNames, io \in {"ok", "presetFails"} : SavePreset(pname, io)
  \/ \E io \in {"ok", "backupFails"} : CreateBackup(io)
  \/ \E target \in RestoreTargets, io \in IoOutcomes : restoreBackup(target, io)
  \/ \E io \in IoOutcomes : handleRestoreLatestBackup(io)
  \/ \E stamp \in (DOMAIN backups) \cup {AbsentStamp}, io \in IoOutcomes :
        handleRestoreSpecificBackup(stamp, io)
  \/ \E idx \in 0..Len(getBackups), io \in {"ok", "unlinkFails"} : DeleteBackup(idx, io)
  \/ \E io \in {"ok", "unlinkFails"} : DeleteAllBackups(io)
  \/ \E io \in IoOutcomes : checkConfig(io)
  \/ \E io \in IoOutcomes : handleCheckFixConfig(io)
  \/ \E op \in ReadingOps : readConfigExit(op)
  \/ Tick
  \/ Launch

Spec == Init /\ [][Next]_vars

(***************************************************************************)
(* SpecBackups: the handlers that read or change the backup directory,     *)
(* with the toggle as the handler that goes through writeConfig.           *)
(***************************************************************************)
InitBackups == Init /\ presets = NoPresets

NextBackups ==
  \/ \E mcpInfo \in listMcps(JSONparse(live)) \cup {InvalidAnswer}, io \in IoOutcomes :
        handleToggleMcp(mcpInfo, io)
  \/ \E io \in {"ok", "backupFails"} : CreateBackup(io)
  \/ \E target \in RestoreTargets, io \in IoOutcomes : restoreBackup(target, io)
  \/ \E io \in IoOutcomes : handleRestoreLatestBackup(io)
  \/ \E stamp \in (DOMAIN backups) \cup {AbsentStamp}, io \in IoOutcomes :
        handleRestoreSpecificBackup(stamp, io)
  \/ \E idx \in 0..Len(getBackups), io \in {"ok", "unlinkFails"} : DeleteBackup(idx, io)
  \/ \E io \in {"ok", "unlinkFails"} : DeleteAllBackups(io)
  \/ \E io \in IoOutcomes : handleCheckFixConfig(io)
  \/ Tick
  \/ Launch

SpecBackups == InitBackups /\ [][NextBackups]_vars

(***************************************************************************)
(* SpecPresets: the handlers that read or write the preset directory, with *)
(* the toggle as the handler that changes the live file in between.        *)
(***************************************************************************)
InitPresets == Init /\ backups = NoBackups

NextPresets ==
  \/ \E mcpInfo \in listMcps(JSONparse(live)) \cup {InvalidAnswer}, io \in IoOutcomes :
        handleToggleMcp(mcpInfo, io)
  \/ \E pname \in PresetNames, io \in IoOutcomes : SmartLoad(pname, io)
  \/ \E pname \in PresetNames \cup {AbsentPreset}, io \in IoOutcomes : StandardLoad(pname, io)
  \/ \E pname \in PresetNames, io \in {"ok", "presetFails"} : SavePreset(pname, io)
  \/ \E op \in ReadingOps : readConfigExit(op)
  \/ Launch

SpecPresets == InitPresets /\ [][NextPresets]_vars

(***************************************************************************)
(* Properties of the writes of the live file (Spec).                       *)
(***************************************************************************)
\* C3: the file written by toggle, enableAll, custom selection, smart preset
\* load and the structure fix holds every top-level key other than the two
\* bucket keys, with the value it had.
C3_OtherKeysKept ==
  (/\ last.op \in {"toggle", "enableAll", "custom", "smartLoad", "structureFix"}
   /\ last.outcome = "wrote")
    => JSONparse(live).other = JSONparse(last.before).other

WritingOps ==
  {"toggle", "enableAll", "custom", "standardLoad", "smartLoad", "structureFix",
   "jsonRepair", "restore"}

\* C4: right after any operation has overwritten the live file, the latest
\* backup slot holds the bytes that were live right before it.
C4_LatestHoldsBefore ==
  (last.op \in WritingOps /\ last.outcome = "wrote") => latest = last.before

\* C5: an operation that overwrote the live file wrote its backup first, and
\* one whose backup write failed left the live file as it was.
C5_BackupFirst ==
  last.op \in WritingOps =>
    /\ last.outcome = "wrote" => last.backup # "none"
    /\ last.io = "backupFails" => live = last.before

\* The snapshot a restore run chose, as it is stored.
Chosen(run) == IF run.name = "latest" THEN latest ELSE backups[run.stamp]

\* C12: a restore copies the live bytes into the pre-restore slot before it
\* overwrites the live file: after a successful restore the slot holds the
\* bytes that were live before it and the live file those of the chosen
\* snapshot, and a restore whose copy fails leaves the live file alone.
C12_PreRestoreFirst ==
  last.op = "restore" =>
    /\ last.outcome = "wrote" => (preRestore = last.before /\ live = Chosen(last))
    /\ live # last.before => preRestore = last.before
    /\ last.io = "backupFails" => live = last.before

\* A successful restore that changed the live file.
C12_Witness ==
  /\ last.op = "restore" /\ last.outcome = "wrote"
  /\ live # last.before
  /\ preRestore = last.before

\* The snapshots the restore menus of the two tools offer: the latest slot and
\* the timestamped backups getBackups / getAvailableBackups list.
OfferedSnapshots ==
  {f \in {latest} : Exists(f)} \cup {backups[t] : t \in DOMAIN backups}

\* C13: after a successful restore, one restore the tool offers brings the
\* live file back to the bytes it held before that restore: one of the
\* snapshots offered holds those bytes.
C13_RestoreUndoable ==
  (last.op = "restore" /\ last.outcome = "wrote") => last.before \in OfferedSnapshots

RECURSIVE newestFirst(_)
\* The instants of a set, the latest first.
newestFirst(T) ==
  IF T = {} THEN <<>>
  ELSE LET newest == CHOOSE t \in T : \A u \in T : u <= t
       IN  <<newest>> \o newestFirst(T \ {newest})

\* C14: the list of backups holds the names of the timestamped snapshots, the
\* one created last first and the others in the reverse order of creation,
\* and never the latest slot nor the pre-restore slot.
C14_ListNewestFirst ==
  LET instants == newestFirst(DOMAIN backups)
  IN  /\ getBackups = [i \in 1..Len(instants) |-> BackupName(instants[i])]
      /\ \A i \in 1..Len(getBackups) : getBackups[i] \notin {LatestName, PreRestoreName}

\* Three snapshots taken at distinct instants beside a latest slot.
C14_Witness ==
  /\ Cardinality(DOMAIN backups) >= 3
  /\ Exists(latest)
  /\ Len(getBackups) = Cardinality(DOMAIN backups)

\* C15: deleting all backups leaves the latest slot, the pre-restore slot, the
\* live file and the presets as they were and, when it succeeds, no
\* timestamped snapshot; deleting one backup leaves the same files as they
\* were and, when it succeeds, removes the snapshot selected and no other.
C15_DeleteFrame ==
  [][(steps' = steps + 1 /\ last'.op \in {"delete", "deleteAll"})
     => (/\ live' = live /\ latest' = latest /\ preRestore' = preRestore
         /\ presets' = presets
         /\ (last'.op = "deleteAll" /\ last'.outcome = "deleted") => backups' = NoBackups
         /\ (last'.op = "delete" /\ last'.outcome = "deleted") =>
               \E t \in DOMAIN backups :
                  /\ BackupName(t) = getBackups[last'.stamp]
                  /\ backups' = [u \in (DOMAIN backups) \ {t} |-> backups[u]])]_vars

\* All backups deleted while the latest slot and the pre-restore slot exist.
C15_Witness ==
  /\ last.op = "deleteAll" /\ last.outcome = "deleted"
  /\ backups = NoBackups
  /\ Exists(latest) /\ Exists(preRestore)

\* A run that named something that does not exist: a toggle of no listed
\* server, a restore of a snapshot that is not stored (the latest slot when
\* there is none), a load of a preset that is not there.
NamesNothing(run) ==
  \/ run.op = "toggle" /\ [name |-> run.name, enabled |-> run.enabled] \notin listMcps(JSONparse(live))
  \/ run.op = "restore" /\ run.name = "latest" /\ ~Exists(latest)
  \/ run.op = "restore" /\ run.name = "stamped" /\ run.stamp \notin DOMAIN backups
  \/ run.op = "standardLoad" /\ run.pname \notin DOMAIN presets

\* C16: a run that names nothing stored aborts with the live file, the latest
\* slot, the pre-restore slot, every timestamped snapshot and every preset
\* unchanged.
C16_AbortUnchanged ==
  [][(steps' = steps + 1 /\ NamesNothing(last'))
     => UNCHANGED <<live, latest, preRestore, backups, presets>>]_vars

\* C17: saving the live configuration as preset p and then loading p the
\* standard way makes the live file hold, as a JSON value, the configuration
\* that was live when p was last saved.  Step by step: a save that succeeds
\* leaves in p the value of the live file, replacing what p held, and does
\* not touch the live file; nothing but a save changes a preset; a standard
\* load that writes leaves in the live file the value of p; a load right after
\* a save of the same preset brings back the value that was saved.
C17_SaveThenLoad ==
  [][steps' = steps + 1 =>
       /\ (last'.op = "savePreset" /\ last'.outcome = "saved")
            => /\ last'.pname \in DOMAIN presets'
               /\ JSONparse(presets'[last'.pname]) = JSONparse(live)
               /\ \A p \in (DOMAIN presets') \ {last'.pname} :
                     p \in DOMAIN presets /\ presets'[p] = presets[p]
               /\ live' = live
       /\ last'.op # "savePreset" => presets' = presets
       /\ (last'.op = "standardLoad" /\ last'.outcome = "wrote")
            => /\ JSONparse(live') = JSONparse(presets[last'.pname])
               /\ (last.op = "savePreset" /\ last.outcome = "saved" /\ last.pname = last'.pname)
                    => JSONparse(live') = JSONparse(last.before)]_vars

\* A preset that held an earlier configuration was saved again and then
\* loaded: the live file holds what was saved, not what the preset held.
C17_Witness ==
  /\ last.op = "standardLoad" /\ last.outcome = "wrote"
  /\ prev.op = "savePreset" /\ prev.outcome = "saved"
  /\ JSONparse(live) = JSONparse(last.before)
  /\ JSONparse(live) # EarlierPreset
  /\ JSONparse(presets[last.pname]) = JSONparse(live)

\* C18: an operation that reads a live file that is not valid JSON ends only
\* itself: the tool is back at its menu afterwards and the process goes on.
C18_ParseErrorContained ==
  [][(steps' = steps + 1 /\ ~ParsesOK(live) /\ last'.op \in ReadingOps)
     => proc' = "menu"]_vars

(***************************************************************************)
(* SpecFix: the structure fix of both tools over every shape of the two    *)
(* bucket keys a file that parses can have.                                *)
(***************************************************************************)
FixDefs == {NodeDef}

FixOthers == {"none", "{\"globalShortcut\":\"Ctrl+Space\"}"}

FixBuckets == BucketsOver(FixDefs) \cup {NullBucket, StringBucket, ArrayBucket}

FixConfigs == {MkConfig(e, d, o) : e \in FixBuckets, d \in FixBuckets, o \in FixOthers}

InitFix ==
  /\ live \in {HandFile(c) : c \in FixConfigs}
  /\ latest = NoFile
  /\ backups = NoBackups
  /\ preRestore = NoFile
  /\ presets = NoPresets
  /\ clock = 1
  /\ proc = "menu"
  /\ last = NoRun
  /\ prev = Brief(NoRun)
  /\ steps = 0
  /\ budget = MaxRuns

NextFix ==
  \/ \E io \in IoOutcomes : checkConfig(io)
  \/ \E io \in IoOutcomes : handleCheckFixConfig(io)
  \/ Launch

SpecFix == InitFix /\ [][NextFix]_vars

\* What the structure fix is specified to make of a bucket.
IsMapping(b) == b.kind = "object"

\* C19: the structure fix returns a configuration in which each bucket is a
\* mapping: the mapping it was, or the empty mapping when the key was absent
\* or held something else; the other top-level fields are unchanged.
C19_Normalize ==
  (last.op = "structureFix" /\ last.outcome = "wrote")
    => LET c == JSONparse(last.before)
           n == JSONparse(live)
       IN  /\ n.mcpServers = IF IsMapping(c.mcpServers) THEN c.mcpServers ELSE EmptyObj
           /\ n.disabledMcpServers = IF IsMapping(c.disabledMcpServers)
                                     THEN c.disabledMcpServers ELSE EmptyObj
           /\ n.other = c.other

\* C20: the structure fix applied to its own result changes nothing, in
\* either tool: for the configuration in the live file, and for the
\* configuration a fix has just written.
C20_Idempotent ==
  ParsesOK(live)
    => LET c == JSONparse(live)
       IN  /\ checkConfigFix(checkConfigFix(c)) = checkConfigFix(c)
           /\ fixConfigStructure(fixConfigStructure(c)) = fixConfigStructure(c)
           /\ (last.op = "structureFix" /\ last.outcome = "wrote" /\ last.variant = "compact")
                => checkConfigFix(c) = c
           /\ (last.op = "structureFix" /\ last.outcome = "wrote" /\ last.variant = "beta")
                => fixConfigStructure(c) = c

\* A fix has rewritten a file whose bucket keys were both wrong.
C20_Witness ==
  /\ last.op = "structureFix" /\ last.outcome = "wrote"
  /\ JSONparse(last.before).mcpServers.kind \in {"absent", "null"}
  /\ JSONparse(last.before).disabledMcpServers.kind = "string"
  /\ JSONparse(live).mcpServers = EmptyObj
  /\ JSONparse(live).disabledMcpServers = EmptyObj
  /\ checkConfigFix(JSONparse(live)) = JSONparse(live)

\* C21: the structure check reports a missing enabled bucket exactly when the
\* mcpServers key is absent, a wrong type for it exactly when the key holds
\* something that is not a mapping (null, an array, a string), a wrong type
\* for disabledMcpServers exactly when that key holds something that is not a
\* mapping, and nothing else.  The issues are those the Check/Fix handler of
\* the beta tool found in the file it has just checked.
C21_ValidateStructure ==
  (last.op = "structureFix" /\ last.variant = "beta")
    => LET c == JSONparse(last.before)
           issues == structureIssues(c)
       IN  /\ "Missing mcpServers" \in issues <=> c.mcpServers.kind = "absent"
           /\ "mcpServers is not an object" \in issues
                <=> (c.mcpServers.kind # "absent" /\ ~IsMapping(c.mcpServers))
           /\ "disabledMcpServers is not an object" \in issues
                <=> (c.disabledMcpServers.kind # "absent" /\ ~IsMapping(c.disabledMcpServers))

(***************************************************************************)
(* The JSON repair, on the text of the file.  A text is a sequence of      *)
(* characters; the texts drawn below are written with braces, brackets,    *)
(* commas, colons, both quotes, the letters a to c, digits, spaces and     *)
(* line feeds.                                                             *)
(***************************************************************************)
\* \s
Whitespace == {" ", "\n"}

\* \d
Digits == {"0", "1", "2", "3", "4", "5", "6", "7", "8", "9"}

\* \w
WordChars == {"a", "b", "c", "_"} \cup Digits

\* The index of the first character from i on that is not whitespace
\* (Len(s) + 1: there is none).
RECURSIVE skipWs(_, _)
skipWs(s, i) == IF i <= Len(s) /\ s[i] \in Whitespace THEN skipWs(s, i + 1) ELSE i

\* The index of the first character from i on that is not a word character.
RECURSIVE skipWord(_, _)
skipWord(s, i) == IF i <= Len(s) /\ s[i] \in WordChars THEN skipWord(s, i + 1) ELSE i

\* .replace(/,(\s*[}\]])/g, '$1'), from index i on
RECURSIVE removeTrailingCommas(_, _)
removeTrailingCommas(s, i) ==
  IF i > Len(s) THEN <<>>
  ELSE LET j == skipWs(s, i + 1)
       IN  IF s[i] = "," /\ j <= Len(s) /\ s[j] \in {"}", "]"}
           THEN SubSeq(s, i + 1, j) \o removeTrailingCommas(s, j + 1)
           ELSE <<s[i]>> \o removeTrailingCommas(s, i + 1)

\* .replace(/(["\d])\s*\n\s*(["{[])/g, '$1,\n$2'), from index i on
RECURSIVE addMissingCommas(_, _)
addMissingCommas(s, i) ==
  IF i > Len(s) THEN <<>>
  ELSE LET j == skipWs(s, i + 1)
       IN  IF /\ s[i] \in {"\""} \cup Digits
              /\ j <= Len(s) /\ s[j] \in {"\"", "{", "["}
              /\ \E k \in (i + 1)..(j - 1) : s[k] = "\n"
           THEN <<s[i], ",", "\n", s[j]>> \o addMissingCommas(s, j + 1)
           ELSE <<s[i]>> \o addMissingCommas(s, i + 1)

\* The match of /{\s*(\w+)\s*:/ that starts at index i: the indices of the
\* word and of the colon (colon 0: no match starts at i).
unquotedPropAt(s, i) ==
  LET from == skipWs(s, i + 1)
      to == skipWord(s, from)
      colon == skipWs(s, to)
  IN  [from |-> from, to |-> to,
       colon |-> IF s[i] = "{" /\ to > from /\ colon <= Len(s) /\ s[colon] = ":"
                 THEN colon ELSE 0]

\* unquotedPropRegex.test(fixedContent)
hasUnquotedProp(s) == \E i \in 1..Len(s) : unquotedPropAt(s, i).colon # 0

\* .replace(unquotedPropRegex, '{"$1":'), from index i on
RECURSIVE quoteProps(_, _)
quoteProps(s, i) ==
  IF i > Len(s) THEN <<>>
  ELSE LET m == unquotedPropAt(s, i)
       IN  IF m.colon # 0
           THEN <<"{", "\"">> \o SubSeq(s, m.from, m.to - 1) \o <<"\"", ":">>
                  \o quoteProps(s, m.colon + 1)
           ELSE <<s[i]>> \o quoteProps(s, i + 1)

\* while (unquotedPropRegex.test(fixedContent)) fixedContent = ...replace(...)
RECURSIVE quoteUnquotedProps(_)
quoteUnquotedProps(s) ==
  IF hasUnquotedProp(s) THEN quoteUnquotedProps(quoteProps(s, 1)) ELSE s

\* fixedContent.includes(ch)
includes(s, ch) == \E i \in 1..Len(s) : s[i] = ch

\* if (includes("'") && !includes('"')) fixedContent.replace(/'/g, '"')
doubleTheQuotes(s) ==
  IF includes(s, "'") /\ ~includes(s, "\"")
  THEN [i \in 1..Len(s) |-> IF s[i] = "'" THEN "\"" ELSE s[i]]
  ELSE s

\* The text the compact tool parses after "Attempt to fix? y".
fixedCompact(content) == addMissingCommas(removeTrailingCommas(content, 1), 1)

\* The text attemptJsonFix parses.
fixedBeta(rawContent) ==
  doubleTheQuotes(quoteUnquotedProps(addMissingCommas(removeTrailingCommas(rawContent, 1), 1)))

(***************************************************************************)
(* JSON.parse on such a text.  A value is <<"num", n>>, <<"str", chars>>,  *)
(* <<"arr", values>> or <<"obj", members>>, the members a function of the  *)
(* keys (a key written twice keeps its last value).  The texts have no     *)
(* backslash, sign, fraction or literal name, so the grammar below is the  *)
(* whole of JSON on them.                                                  *)
(***************************************************************************)
ParseFailed == [ok |-> FALSE, val |-> <<"none">>, next |-> 0]

Parsed(v, next) == [ok |-> TRUE, val |-> v, next |-> next]

NoMembers == [k \in {} |-> <<"none">>]

RECURSIVE digitsValue(_)
digitsValue(ds) ==
  IF ds = <<>> THEN 0
  ELSE 10 * digitsValue(SubSeq(ds, 1, Len(ds) - 1))
         + (CHOOSE d \in 0..9 : DigitChar(d) = ds[Len(ds)])

RECURSIVE skipDigits(_, _)
skipDigits(s, i) == IF i <= Len(s) /\ s[i] \in Digits THEN skipDigits(s, i + 1) ELSE i

\* The index of the quote that closes the string opened before i (0: a line
\* feed or the end of the text comes first).
RECURSIVE closingQuote(_, _)
closingQuote(s, i) ==
  IF i > Len(s) \/ s[i] = "\n" THEN 0
  ELSE IF s[i] = "\"" THEN i
  ELSE closingQuote(s, i + 1)

parseString(s, i) ==
  LET j == closingQuote(s, i + 1)
  IN  IF j = 0 THEN ParseFailed ELSE Parsed(<<"str", SubSeq(s, i + 1, j - 1)>>, j + 1)

parseNumber(s, i) ==
  LET k == skipDigits(s, i)
  IN  IF s[i] = "0" /\ k > i + 1 THEN ParseFailed
      ELSE Parsed(<<"num", digitsValue(SubSeq(s, i, k - 1))>>, k)

RECURSIVE parseValue(_, _), parseMembers(_, _, _), parseElements(_, _, _)
\* The value that starts at index i, whitespace skipped by the caller.
parseValue(s, i) ==
  IF i > Len(s) THEN ParseFailed
  ELSE IF s[i] = "\"" THEN parseString(s, i)
  ELSE IF s[i] \in Digits THEN parseNumber(s, i)
  ELSE IF s[i] = "{"
  THEN LET j == skipWs(s, i + 1)
       IN  IF j <= Len(s) /\ s[j] = "}" THEN Parsed(<<"obj", NoMembers>>, j + 1)
           ELSE parseMembers(s, j, NoMembers)
  ELSE IF s[i] = "["
  THEN LET j == skipWs(s, i + 1)
       IN  IF j <= Len(s) /\ s[j] = "]" THEN Parsed(<<"arr", <<>>>>, j + 1)
           ELSE parseElements(s, j, <<>>)
  ELSE ParseFailed

\* The members of an object from index i on, up to its closing brace.
parseMembers(s, i, acc) ==
  IF i > Len(s) \/ s[i] # "\"" THEN ParseFailed
  ELSE LET key == parseString(s, i)
           colon == IF key.ok THEN skipWs(s, key.next) ELSE 0
       IN  IF ~key.ok \/ colon > Len(s) \/ s[colon] # ":" THEN ParseFailed
           ELSE LET v == parseValue(s, skipWs(s, colon + 1))
                    after == IF v.ok THEN skipWs(s, v.next) ELSE 0
                    members == [k \in (DOMAIN acc) \cup {key.val[2]} |->
                                  IF k = key.val[2] THEN v.val ELSE acc[k]]
                IN  IF ~v.ok \/ after > Len(s) THEN ParseFailed
                    ELSE IF s[after] = "}" THEN Parsed(<<"obj", members>>, after + 1)
                    ELSE IF s[after] = ","
                    THEN parseMembers(s, skipWs(s, after + 1), members)
                    ELSE ParseFailed

\* The elements of an array from index i on, up to its closing bracket.
parseElements(s, i, acc) ==
  LET v == parseValue(s, i)
      after == IF v.ok THEN skipWs(s, v.next) ELSE 0
  IN  IF ~v.ok \/ after > Len(s) THEN ParseFailed
      ELSE IF s[after] = "]" THEN Parsed(<<"arr", Append(acc, v.val)>>, after + 1)
      ELSE IF s[after] = "," THEN parseElements(s, skipWs(s, after + 1), Append(acc, v.val))
      ELSE ParseFailed

\* JSON.parse(text): one value with nothing but whitespace around it.
JSONparseText(text) ==
  LET v == parseValue(text, skipWs(text, 1))
  IN  IF v.ok /\ skipWs(text, v.next) = Len(text) + 1 THEN v ELSE ParseFailed

(***************************************************************************)
(* SpecRepair: the JSON repair of both tools on texts JSON.parse rejects.  *)
(* The live file holds the text as it was typed ("raw") until a repair     *)
(* writes the re-serialised value.                                         *)
(***************************************************************************)
RawFile(text) == [fmt |-> "raw", val |-> text]

KeyStyles == {"double", "single", "bare"}

KeyLetters == <<"a", "b", "c">>

\* One member: the i-th letter as the key, written in the style, and the
\* digit i as the value.
Member(style, i) ==
  (IF style = "double" THEN <<"\"", KeyLetters[i], "\"">>
   ELSE IF style = "single" THEN <<"'", KeyLetters[i], "'">>
   ELSE <<KeyLetters[i]>>) \o <<":", DigitChar(i)>>

RECURSIVE Members(_, _, _)
Members(style, n, sep) ==
  IF n = 1 THEN Member(style, 1)
  ELSE Members(style, n - 1, sep) \o sep \o Member(style, n)

Separators == {<<",">>, <<"\n">>, <<",", "\n">>}

\* An object of n members, with or without a comma after the last member and
\* with or without its closing brace.
ObjectText(style, n, sep, trailing, closed) ==
  <<"{">> \o Members(style, n, sep) \o (IF trailing THEN <<",">> ELSE <<>>)
    \o (IF closed THEN <<"}">> ELSE <<>>)

\* {"a": "b   -- a string that is not closed
UnterminatedText == <<"{", "\"", "a", "\"", ":", " ", "\"", "b">>

Texts ==
  {ObjectText(style, n, sep, trailing, closed) :
     style \in KeyStyles, n \in 1..MaxMembers, sep \in Separators,
     trailing \in BOOLEAN, closed \in BOOLEAN}
    \cup {UnterminatedText}

\* The texts on which the Check/Fix handlers offer the repair.
RepairTexts == {t \in Texts : ~JSONparseText(t).ok}

\* Menu 8 (compact checkConfig), "Attempt to fix? y": the two passes, one
\* parse, and the write inside the same try block.
checkConfigRepair(io) ==
  /\ Running
  /\ live.fmt = "raw"
  /\ LET fixed == fixedCompact(live.val)
         config == JSONparseText(fixed)
         run == [NoRun EXCEPT !.op = "jsonRepair", !.variant = "compact", !.io = io,
                              !.before = live]
     IN  IF config.ok /\ io = "ok"
         THEN /\ live' = JSONstringify(config.val)
              /\ Log([run EXCEPT !.outcome = "wrote"])
              /\ UNCHANGED <<latest, preRestore, backups, presets, clock, proc>>
         ELSE /\ Log([run EXCEPT !.outcome = "failed"])
              /\ UNCHANGED <<live, latest, preRestore, backups, presets, clock, proc>>

\* attemptJsonFix writing the repaired text before it is parsed.
attemptJsonFix_WriteFirst(io) ==
  /\ Running
  /\ live.fmt = "raw"
  /\ LET fixedContent == fixedBeta(live.val)
         parsedConfig == JSONparseText(fixedContent)
         b == createManualBackupSilent(io)
         run == [NoRun EXCEPT !.op = "jsonRepair", !.variant = "beta", !.io = io,
                              !.stamp = clock, !.before = live]
         written == ~b.threw /\ parsedConfig.ok /\ io = "ok"
     IN  /\ backups' = b.backups
         /\ live' = IF written THEN JSONstringify(parsedConfig.val)
                    ELSE IF b.threw THEN live ELSE RawFile(fixedContent)
         /\ Ended([run EXCEPT !.backup = IF b.threw THEN "none" ELSE "stamped"],
                  ~written, TRUE, "wrote")
         /\ UNCHANGED <<latest, preRestore, presets, clock>>

\* Menu 7 (beta handleCheckFixConfig, attemptJsonFix), run without a question
\* when the file does not parse: the timestamped copy, the four passes, one
\* parse, the write.  The catch block of the parse and of the write starts
\* with error(...), which throws before anything is printed; the caller's
\* catch block throws the same way.
attemptJsonFix(io) ==
  /\ Running
  /\ live.fmt = "raw"
  /\ LET fixedContent == fixedBeta(live.val)
         parsedConfig == JSONparseText(fixedContent)
         b == createManualBackupSilent(io)
         run == [NoRun EXCEPT !.op = "jsonRepair", !.variant = "beta", !.io = io,
                              !.stamp = clock, !.before = live]
         written == ~b.threw /\ parsedConfig.ok /\ io = "ok"
     IN  /\ backups' = b.backups
         /\ live' = IF written THEN JSONstringify(parsedConfig.val) ELSE live
         /\ Ended([run EXCEPT !.backup = IF b.threw THEN "none" ELSE "stamped"],
                  ~written, TRUE, "wrote")
         /\ UNCHANGED <<latest, preRestore, presets, clock>>

InitRepair ==
  /\ live \in {RawFile(t) : t \in RepairTexts}
  /\ latest \in {NoFile, JSONstringify(EarlierConfig)}
  /\ backups = NoBackups
  /\ preRestore = NoFile
  /\ presets = [p \in {"work"} |-> JSONstringify(EarlierPreset)]
  /\ clock = 1
  /\ proc = "menu"
  /\ last = NoRun
  /\ prev = Brief(NoRun)
  /\ steps = 0
  /\ budget = MaxRuns

NextRepair ==
  \/ \E io \in {"ok", "liveFails"} : checkConfigRepair(io)
  \/ \E io \in IoOutcomes : attemptJsonFix(io)
  \/ Launch

SpecRepair == InitRepair /\ [][NextRepair]_vars

\* The three texts of C22 and the values they stand for.
TrailingCommaText ==
  <<"{", "\"", "a", "\"", ":", "1", ",", "\"", "b", "\"", ":", "2", ",", "}">>

BareKeyText == <<"{", "a", ":", "1", "}">>

SingleQuotedText == <<"{", "'", "a", "'", ":", "1", "}">>

ValueA1 == <<"obj", [k \in {<<"a">>} |-> <<"num", 1>>]>>

ValueA1B2 == <<"obj", [k \in {<<"a">>, <<"b">>} |-> <<"num", IF k = <<"a">> THEN 1 ELSE 2>>]>>

\* C22: a repair of {"a":1,"b":2,} that ends writes {"a":1,"b":2}, a repair
\* of {a:1} writes {"a":1}, a repair of {'a':1} writes {"a":1}; the repair
\* of each of them parses.
C22_RepairsTheThree ==
  (last.op = "jsonRepair" /\ last.io = "ok")
    => /\ last.before = RawFile(TrailingCommaText)
            => (last.outcome = "wrote" /\ live = JSONstringify(ValueA1B2))
       /\ last.before = RawFile(BareKeyText)
            => (last.outcome = "wrote" /\ live = JSONstringify(ValueA1))
       /\ last.before = RawFile(SingleQuotedText)
            => (last.outcome = "wrote" /\ live = JSONstringify(ValueA1))

\* The repair of the run could not make the text parse.
Unrepairable(run, text) ==
  /\ run.op = "jsonRepair"
  /\ ~JSONparseText(IF run.variant = "compact" THEN fixedCompact(text)
                    ELSE fixedBeta(text)).ok

\* C23: when the text still does not parse after the repair, nothing is
\* raised, the tool goes on, and a non-empty window of the text around the
\* position of the error is shown.
C23_UnrepairableShown ==
  [][(steps' = steps + 1 /\ live.fmt = "raw" /\ Unrepairable(last', live.val))
     => (proc' = "menu" /\ last'.shown # <<>>)]_vars

\* C24: when a JSON repair ends without the text parsing, the live file, the
\* latest slot, the pre-restore slot and every preset are as they were; the
\* live file changes only in a repair whose text parsed.
C24_UnrepairableWritesNothing ==
  [][(steps' = steps + 1 /\ last'.op = "jsonRepair" /\ live.fmt = "raw")
     => /\ Unrepairable(last', live.val)
             => UNCHANGED <<live, latest, preRestore, presets>>
        /\ live' # live => ~Unrepairable(last', live.val)]_vars

\* A repair of the beta tool ended on a text that does not parse, after its
\* timestamped copy was made.
C24_Witness ==
  /\ last.op = "jsonRepair" /\ last.variant = "beta" /\ last.backup = "stamped"
  /\ last.before.fmt = "raw" /\ Unrepairable(last, last.before.val)
  /\ live = last.before
  /\ backups # NoBackups

\* The handlers that write the live file by calling writeConfig.
ViaWriteConfig == {"toggle", "enableAll", "custom", "standardLoad", "smartLoad"}

\* C25: a write that fails inside writeConfig, of the latest backup or of the
\* live file, is caught and reported: the run ends as failed, nothing is
\* thrown out of it, and the tool is back at its menu.
C25_WriteFailureReported ==
  [][(steps' = steps + 1 /\ last'.op \in ViaWriteConfig
        /\ last'.io \in {"backupFails", "liveFails"})
     => (proc' = "menu" /\ last'.outcome = "failed")]_vars

(***************************************************************************)
(* SpecStored: every handler, from the states in which a preset is stored. *)
(***************************************************************************)
InitStored == Init /\ presets # NoPresets

SpecStored == InitStored /\ [][Next]_vars

\* C26: a stored preset changes only when a preset is saved under its name,
\* and then it holds the live configuration of that moment; no other handler
\* run changes, adds or removes a preset.
C26_PresetImmutable ==
  [][presets' # presets
     => /\ steps' = steps + 1
        /\ last'.op = "savePreset" /\ last'.outcome = "saved"
        /\ presets' = [p \in (DOMAIN presets) \cup {last'.pname} |->
                         IF p = last'.pname THEN JSONstringify(JSONparse(live))
                         ELSE presets[p]]]_vars

\* Two runs other than a save have rewritten the live file, and the preset
\* stored before them is as it was.
C26_Witness ==
  /\ prev.op = "smartLoad" /\ prev.outcome = "wrote"
  /\ last.op = "restore" /\ last.outcome = "wrote"
  /\ live # last.before
  /\ "work" \in DOMAIN presets
  /\ presets["work"] = JSONstringify(EarlierPreset)

\* C27: whenever config-latest-backup.json exists, a restore of the latest
\* slot is there to be chosen and, if no write fails, it puts the bytes of
\* the slot in the live file, whether or not a timestamped backup exists.
C27_LatestRestorable ==
  [][(steps' = steps + 1 /\ last'.op = "restore" /\ last'.name = "latest"
        /\ Exists(latest) /\ last'.io = "ok")
     => (last'.outcome = "wrote" /\ live' = latest)]_vars

====
